---- MODULE Spec2Model ----
(***************************************************************************)
(* Model of the documentlynx document-processing pipeline:                 *)
(*   - the LangGraph stage graph of app/services/extraction_orchestrator   *)
(*   - the agents' effect on the shared AgentState                         *)
(*   - the Job Registry (app/services/job_service.py)                      *)
(*   - the background task that runs the graph and marks the job           *)
(*     (app/api_routes.py)                                                 *)
(* One job is followed from submission to its final registry write.        *)
(* External collaborators (converter, LLMs, object store, database) are    *)
(* nondeterministic: every call returns a result or a failure.             *)
(***************************************************************************)
EXTENDS Integers, Sequences, FiniteSets, TLC

(***************************************************************************)
(* Bounds of the model                                                     *)
(***************************************************************************)
\* largest value of settings.max_validation_attempts explored (default 3)
MaxConfigAttempts == 4
\* largest number of questions the extraction LLM returns
MaxQuestions == 2
\* the clock runs from 0 to MaxTime
MaxTime == 3
\* threads calling the methods of one circuit breaker
NumThreads == 2
\* largest failure_threshold of a breaker explored
MaxThreshold == 2
\* largest recovery_timeout of a breaker explored (clock ticks)
MaxRecovery == 2
\* record_failure is called while _failure_count is below MaxFailures
MaxFailures == 3
\* jobs running at the same time on one temp directory
NumJobs == 2
\* different document_filename values the jobs are submitted with
NumFilenames == 2
\* largest max_retries of a retry wrapper explored
MaxRetries == 3
\* largest base_delay and exponential_base of a retry wrapper explored
MaxDelayParam == 2

(***************************************************************************)
(* Program constants                                                       *)
(***************************************************************************)
\* should_retry_ingestion: max_attempts = 3 (hard-coded in the orchestrator)
OrchestratorMaxAttempts == 3
\* Settings.max_validation_attempts default
DefaultMaxValidationAttempts == 3
\* len(DOCLING_RETRY_CONFIGS)
NumRetryConfigs == 2
\* attempts of the orchestrator's job status update helper
UpdateStatusAttempts == 3
\* get_breaker / CircuitBreaker.__init__: failure_threshold = 5
DefaultFailureThreshold == 5
\* get_breaker / CircuitBreaker.__init__: recovery_timeout = 60.0
DefaultRecoveryTimeout == 60

None == "None"

\* DOCLING_RETRY_CONFIGS: the overrides for attempt 2 and attempt 3
DOCLING_RETRY_CONFIGS ==
    << [pdf_backend |-> "dlparse_v4", force_ocr |-> TRUE, ocr_engine |-> "tesseract"],
       [pdf_backend |-> "dlparse_v2", force_ocr |-> TRUE, ocr_engine |-> "easyocr",
        do_formula_enrichment |-> TRUE] >>

\* DoclingOptions(): the defaults of the fields the overrides name
DoclingOptions ==
    [pdf_backend |-> "dlparse_v2", force_ocr |-> FALSE, ocr_engine |-> "easyocr",
     do_formula_enrichment |-> TRUE]

\* DoclingOptions.from_dict(state["docling_options"]) if the state holds an
\* override (i > 0 is its place in DOCLING_RETRY_CONFIGS), else the defaults
DoclingOptions_from_dict(i) ==
    IF i = 0
    THEN DoclingOptions
    ELSE LET data == DOCLING_RETRY_CONFIGS[i]
         IN  [k \in DOMAIN DoclingOptions |->
                 IF k \in DOMAIN data THEN data[k] ELSE DoclingOptions[k]]
NoTime == -1
NoList == -1

NoContentMsg == "Processing failed: No content extracted from document. The source URL may be invalid or expired."
ErrDownload == "Error during file-based conversion"
ErrConvert == "Docling conversion error"
ErrPersist == "Error during persistence"
ErrDb == "database error"
ErrCircuitOpen == "Circuit breaker open for 'converter'. Retry after"

InProgressStatuses == {"ingesting", "parsing", "validating", "persisting", "classifying", "vectorizing"}
TerminalStatuses == {"completed", "failed"}
JobStatuses == {"queued"} \cup InProgressStatuses \cup TerminalStatuses

Stages == {"ingestion", "parsing", "markdown_validation", "persistence", "classification", "vectorization"}

VARIABLES
    max_attempts,   \* settings.max_validation_attempts of this deployment
    file_known,     \* determine_document_type(url, filename) # "unknown"
    pc,             \* position of the job: init, spawned, a graph node, END, done
    state,          \* the AgentState threaded through the graph
    fs,             \* temp files: the downloaded source and output.zip
    db,             \* committed Document / Question rows of this run
    job,            \* the Job row of the registry
    now,            \* the clock read by datetime.now / func.now
    trace,          \* graph nodes invoked so far, in order
    reg_log,        \* statuses written to the Job row, in order
    fin,            \* outcome of the final registry writes of the background task
    upd,            \* record of the last _update_job_status call
    cb,             \* one CircuitBreaker instance (its fields)
    cb_lock,        \* the thread inside `with self._lock`, or NoThread
    thr,            \* per thread: position inside a breaker method and its locals
    cb_obs,         \* the last breaker call that returned: what it saw and did
    rt,             \* one call of a function wrapped by retry_with_backoff
    converter,      \* the converter service: timeouts before this job, calls by it
    faults,         \* failures of external calls inside classification / vectorization
    tjobs,          \* concurrently running jobs: their position and file paths
    tfiles,         \* the temp directory they share: what each path holds
    qrows           \* rows of the questions table: their classification columns

\* the variables of the circuit breaker and of the retry wrapper
breaker_vars == <<cb, cb_lock, thr, cb_obs>>
\* the variables of the jobs that share the temp directory
temp_vars == <<tjobs, tfiles>>
\* the classification columns of the persisted questions
class_vars == <<qrows>>
ext == <<cb, cb_lock, thr, cb_obs, rt, converter, faults, temp_vars, class_vars>>
\* the variables of the pipeline and of the Job Registry, except the clock
pipeline_vars == <<max_attempts, file_known, pc, state, fs, db, job, trace, reg_log, fin, upd,
                   temp_vars, class_vars>>

vars == <<max_attempts, file_known, pc, state, fs, db, job, now, trace, reg_log, fin, upd,
          cb, cb_lock, thr, cb_obs, rt, converter, faults, tjobs, tfiles, qrows>>

(***************************************************************************)
(* Job Registry: the Job row and JobService                                *)
(***************************************************************************)
NoJob ==
    [status |-> "absent", error_message |-> None, document_id |-> None,
     question_count |-> 0, created_at |-> NoTime, started_at |-> NoTime,
     completed_at |-> NoTime]

\* JobService.create_job: Job(status="queued"), created_at = func.now()
create_job(t) ==
    [status |-> "queued", error_message |-> None, document_id |-> None,
     question_count |-> 0, created_at |-> t, started_at |-> NoTime,
     completed_at |-> NoTime]

\* JobService.update_status
update_status(j, status, error_message, t) ==
    [j EXCEPT !.status = status,
              !.started_at = IF j.started_at = NoTime /\ status # "queued" THEN t ELSE @,
              !.error_message = IF error_message # None THEN error_message ELSE @]

\* complete_job that forgets to store the document id
complete_job_nodoc(j, document_id, question_count, t) ==
    [j EXCEPT !.status = "completed",
              !.question_count = question_count,
              !.completed_at = t]

\* JobService.complete_job
complete_job(j, document_id, question_count, t) ==
    [j EXCEPT !.status = "completed",
              !.document_id = document_id,
              !.question_count = question_count,
              !.completed_at = t]

\* JobService.fail_job
fail_job(j, error_message, t) ==
    [j EXCEPT !.status = "failed",
              !.error_message = error_message,
              !.completed_at = t]

(***************************************************************************)
(* AgentState                                                              *)
(***************************************************************************)
EmptyMetadata ==
    [attempt_number |-> 0, is_retry |-> FALSE, conversion_completed |-> None,
     options_used |-> 0, validation_score |-> -1, retry_config |-> 0,
     max_attempts_reached |-> FALSE, parsing_error |-> FALSE,
     classified_count |-> -1, classification_error |-> FALSE,
     embedded_count |-> -1, vectorization_error |-> FALSE]

\* process_document_background: initial_state
initial_state ==
    [status |-> "pending", error_message |-> None, metadata |-> EmptyMetadata,
     validation_attempts |-> 0, validation_passed |-> FALSE,
     docling_options |-> 0, output_zip_path |-> FALSE, source_file_path |-> FALSE,
     validation_feedback |-> None,
     raw_content |-> FALSE, parsed_markdown |-> FALSE, cleaned_markdown |-> FALSE,
     document_id |-> None, question_ids |-> NoList, vector_ids |-> NoList]

NoFiles == [source |-> FALSE, zip |-> "absent"]
EmptyDb == [documents |-> {}, questions |-> 0, classified |-> 0, embedded |-> 0]
NoFin == [first |-> None, fallback |-> None]
NoUpd == [calls |-> 0, opened |-> 0, closed |-> 0, critical |-> FALSE,
          raised |-> FALSE, succeeded |-> FALSE, target |-> None, outs |-> <<>>]

(***************************************************************************)
(* Temp files of concurrently running jobs.  A path is [dir, name]: dir 0   *)
(* is the temp directory itself and dir j the subdirectory of job j; name 0 *)
(* is output.zip and name n the n-th document_filename.  A path holds 0 (no *)
(* file) or j, the document of job j or its conversion.                     *)
(***************************************************************************)
JobIds == 1..NumJobs
Filenames == 1..NumFilenames
TempPaths == [dir : 0..NumJobs, name : 0..NumFilenames]
NoPath == [dir |-> -1, name |-> -1]
Absent == 0

\* DoclingService.download_to_temp: file_path = temp_path / filename
download_to_temp(filename) == [dir |-> 0, name |-> filename]

\* DoclingService.convert_file_to_zip: Path(self.temp_dir) / job_id / "output.zip"
output_zip_path(job_id) == [dir |-> job_id, name |-> 0]

NewJob ==
    [pc |-> "new", document_filename |-> 0, source_file_path |-> NoPath,
     output_zip_path |-> NoPath, validation_attempts |-> 0, validation_passed |-> FALSE]

InitTemp ==
    /\ tjobs = [j \in JobIds |-> NewJob]
    /\ tfiles = [p \in TempPaths |-> Absent]

(***************************************************************************)
(* Question classification (app/agents/classification_agent.py)            *)
(***************************************************************************)
QuestionIds == 1..MaxQuestions

\* the values the prompt asks the LLM to choose from
Topics ==
    {"math", "physics", "chemistry", "biology", "psychology", "history", "geography",
     "english", "literature", "economics", "computer_science", "art", "music",
     "philosophy", "sociology", "political_science", "environmental_science", "other"}
Difficulties == {"easy", "medium", "hard"}
CognitiveLevels ==
    {"knowledge", "comprehension", "application", "analysis", "synthesis", "evaluation"}

\* what one element of the parsed JSON array can carry for a question: a value
\* of the list, any other string, or (shown for the topic) no such key, for
\* which dict.get gives None
Classifications ==
    [topic : {"math", "astrology", None},
     difficulty : {"easy", "extreme"},
     cognitive_level : {"knowledge", "remember"}]

\* a Question row as PersistenceAgent inserts it
NewQuestion ==
    [topic |-> None, difficulty |-> None, cognitive_level |-> None, is_classified |-> FALSE]

\* Step 4: the fields of the classification are copied to the row as they are
apply_classification(question, classification) ==
    [question EXCEPT !.topic = classification.topic,
                     !.difficulty = classification.difficulty,
                     !.cognitive_level = classification.cognitive_level,
                     !.is_classified = TRUE]

InitQuestions == qrows = [q \in QuestionIds |-> NewQuestion]

(***************************************************************************)
(* Circuit breaker (app/circuit_breaker.py).  b is the record of the       *)
(* fields of one CircuitBreaker; t is a reading of time.monotonic().       *)
(***************************************************************************)
NoThread == 0
Threads == 1..NumThreads
CircuitStates == {"closed", "open", "half_open"}

Max(a, b) == IF a >= b THEN a ELSE b

\* CircuitBreaker.__init__
CircuitBreaker(service_name, failure_threshold, recovery_timeout) ==
    [service_name |-> service_name,
     failure_threshold |-> failure_threshold,
     recovery_timeout |-> recovery_timeout,
     _state |-> "closed", _failure_count |-> 0, _last_failure_time |-> 0]

\* a lock that lets every thread in
with_lock_racy(l, t) == TRUE

\* `with self._lock`: thread t enters when no thread holds the lock
with_lock(l, t) == l = NoThread

\* a state property that wants strictly more than recovery_timeout
CircuitBreaker_state_late(b, t) ==
    IF b._state = "open" /\ t - b._last_failure_time > b.recovery_timeout
    THEN [b EXCEPT !._state = "half_open"]
    ELSE b

\* the `state` property: the breaker after the read (the value returned is
\* its _state)
CircuitBreaker_state(b, t) ==
    IF b._state = "open"
    THEN LET elapsed == t - b._last_failure_time
         IN  IF elapsed >= b.recovery_timeout
             THEN [b EXCEPT !._state = "half_open"]
             ELSE b
    ELSE b

\* a record_success that closes the breaker but keeps the counter
record_success_keep(b) == [b EXCEPT !._state = "closed"]

\* CircuitBreaker.record_success
record_success(b) == [b EXCEPT !._failure_count = 0, !._state = "closed"]

\* CircuitBreaker.record_failure; count is the value of _failure_count that
\* `self._failure_count += 1` read
record_failure(b, count, t) ==
    [b EXCEPT !._failure_count = count + 1,
              !._last_failure_time = t,
              !._state = IF count + 1 >= b.failure_threshold THEN "open" ELSE @]

NoError == [raised |-> FALSE, service_name |-> None, retry_after |-> -1]

\* a check that also rejects the trial call of a half-open breaker
check_no_trial(current_state, b, t) ==
    IF current_state # "closed"
    THEN [raised |-> TRUE, service_name |-> b.service_name,
          retry_after |-> Max(0, b.recovery_timeout - (t - b._last_failure_time))]
    ELSE NoError

\* CircuitBreaker.check after `current_state = self.state`: the
\* CircuitBreakerOpenError it raises, if any
check(current_state, b, t) ==
    IF current_state = "open"
    THEN LET elapsed == t - b._last_failure_time
             retry_after == Max(0, b.recovery_timeout - elapsed)
         IN  [raised |-> TRUE, service_name |-> b.service_name,
              retry_after |-> retry_after]
    ELSE NoError

\* a thread outside every method of the breaker; inside record_failure it
\* holds the counter it read, inside check the state it read
IdleThread == [pc |-> "idle", count |-> 0, current_state |-> None, pre |-> None, seen |-> 0]

\* op: the call that returned last; pre / post: _state before and after it;
\* elapsed: time since the last failure when the state was read; at: the time
\* of the call; err: what check raised; cooldown: recovery_timeout minus the
\* time since the last failure when check built its error; consecutive:
\* record_failure calls since the last record_success or the construction;
\* recorders: the threads that made them
NoObs ==
    [op |-> None, thread |-> NoThread, pre |-> None, post |-> None,
     elapsed |-> 0, at |-> 0, err |-> NoError, cooldown |-> 0,
     consecutive |-> 0, recorders |-> {}]

(***************************************************************************)
(* Retry wrapper (app/retry.py)                                            *)
(***************************************************************************)
ExceptionKinds == {"ConnectionError", "ValueError"}
CallOutcomes == {"ok"} \cup ExceptionKinds
\* retryable_exceptions: (Exception,) covers every kind
RetryableSets == {ExceptionKinds, {"ConnectionError"}, {"ValueError"}}

\* a back-off that starts one power too high
delay_shifted(base_delay, exponential_base, attempt) ==
    base_delay * (exponential_base ^ (attempt + 1))

\* delay = base_delay * (exponential_base ** attempt)
delay(base_delay, exponential_base, attempt) ==
    base_delay * (exponential_base ^ attempt)

\* an except clause that catches every exception
is_retryable_all(kind, retryable_exceptions) == TRUE

\* `except tuple(retryable_exceptions) as exc`
is_retryable(kind, retryable_exceptions) == kind \in retryable_exceptions

\* retry_with_backoff(max_retries, base_delay, exponential_base,
\* retryable_exceptions)(func), before its first call
retry_with_backoff(max_retries, base_delay, exponential_base, retryable_exceptions) ==
    [max_retries |-> max_retries, base_delay |-> base_delay,
     exponential_base |-> exponential_base,
     retryable_exceptions |-> retryable_exceptions,
     status |-> "running", attempt |-> 0, calls |-> 0, outs |-> <<>>,
     sleeps |-> <<>>, last_exception |-> None, result |-> None, raised |-> None]

\* a loop that sleeps and goes round after the last attempt too
wrapper_once_more(r, out) ==
    LET r1 == [r EXCEPT !.calls = @ + 1, !.outs = Append(@, out)]
        exc == <<out, r.calls + 1>>
    IN  IF out = "ok"
        THEN [r1 EXCEPT !.status = "returned", !.result = <<"value", r.calls + 1>>]
        ELSE IF ~(out \in r.retryable_exceptions)
        THEN [r1 EXCEPT !.status = "raised", !.raised = exc]
        ELSE IF r.attempt <= r.max_retries
        THEN [r1 EXCEPT !.last_exception = exc, !.attempt = @ + 1,
                        !.sleeps = Append(@, r.base_delay * (r.exponential_base ^ r.attempt))]
        ELSE [r1 EXCEPT !.last_exception = exc, !.attempt = @ + 1,
                        !.status = "raised", !.raised = exc]

\* one iteration of the loop of wrapper: func is called and ends with out
\* (its value is tagged with the number of the call, so is its exception)
wrapper(r, out) ==
    LET r1 == [r EXCEPT !.calls = @ + 1, !.outs = Append(@, out)]
        exc == <<out, r.calls + 1>>
    IN  IF out = "ok"
        THEN [r1 EXCEPT !.status = "returned", !.result = <<"value", r.calls + 1>>]
        ELSE IF ~is_retryable(out, r.retryable_exceptions)
        THEN \* not caught: propagates out of wrapper
             [r1 EXCEPT !.status = "raised", !.raised = exc]
        ELSE IF r.attempt < r.max_retries
        THEN [r1 EXCEPT !.last_exception = exc, !.attempt = @ + 1,
                        !.sleeps = Append(@, delay(r.base_delay, r.exponential_base, r.attempt))]
        ELSE \* range(max_retries + 1) is exhausted: raise last_exception
             [r1 EXCEPT !.last_exception = exc, !.attempt = @ + 1,
                        !.status = "raised", !.raised = exc]

NoRetry == [retry_with_backoff(0, 1, 1, ExceptionKinds) EXCEPT !.status = "idle"]

\* the converter service as the pipeline sees it: prior_timeouts is the number
\* of consecutive conversions that timed out in earlier jobs, calls the number
\* of convert_file_to_zip calls of this job
\* last_attempt / last_options: the attempt number of the last conversion and
\* the DoclingOptions it was called with
NoConverter ==
    [prior_timeouts |-> 0, calls |-> 0, last_attempt |-> 0, last_options |-> DoclingOptions]

InitExt ==
    /\ cb = CircuitBreaker("converter", DefaultFailureThreshold, DefaultRecoveryTimeout)
    /\ cb_lock = NoThread
    /\ thr = [t \in Threads |-> IdleThread]
    /\ cb_obs = NoObs
    /\ rt = NoRetry
    /\ faults = {}
    /\ InitTemp
    /\ InitQuestions

Init ==
    /\ max_attempts \in 1..MaxConfigAttempts
    /\ file_known \in BOOLEAN
    /\ pc = "init"
    /\ state = initial_state
    /\ fs = NoFiles
    /\ db = EmptyDb
    /\ job = NoJob
    /\ now = 0
    /\ trace = <<>>
    /\ reg_log = <<>>
    /\ fin = NoFin
    /\ upd = NoUpd
    /\ InitExt
    /\ converter \in {[NoConverter EXCEPT !.prior_timeouts = n] : n \in {0, DefaultFailureThreshold}}

(***************************************************************************)
(* Stage: Ingestion (file-based conversion with ZIP output)                *)
(*   dl   : outcome of docling_service.download_to_temp  ("ok" | "fail")   *)
(*   conv : outcome of docling_service.convert_file_to_zip                 *)
(*          "md" (ZIP with Markdown) | "empty" (ZIP without Markdown) |    *)
(*          "fail" (error variant)                                         *)
(* Returns the new state, the new temp files and the number of calls of    *)
(* convert_file_to_zip it made; no circuit breaker is consulted.           *)
(***************************************************************************)
DownloadOutcomes == {"ok", "fail"}
ConvertOutcomes == {"md", "empty", "fail"}

process_by_file(s, f, known, dl, conv) ==
    LET is_retry == s.validation_attempts > 0 /\ s.source_file_path
        s1 == [s EXCEPT !.status = "ingesting",
                        !.metadata.is_retry = is_retry,
                        !.metadata.attempt_number = s.validation_attempts + 1]
        reuse == is_retry /\ s.source_file_path /\ f.source
        s2 == IF reuse THEN s1 ELSE [s1 EXCEPT !.source_file_path = TRUE]
        f2 == IF reuse THEN f ELSE [f EXCEPT !.source = TRUE]
    IN  IF ~known
        THEN \* unknown file type: conversion skipped
             [s |-> [s1 EXCEPT !.metadata.conversion_completed = "False"], fs |-> f,
              calls |-> 0]
        ELSE IF ~reuse /\ dl = "fail"
        THEN \* download_to_temp raised
             [s |-> [s1 EXCEPT !.error_message = ErrDownload,
                               !.metadata.conversion_completed = "False"],
              fs |-> f, calls |-> 0]
        ELSE IF conv = "fail"
        THEN [s |-> [s2 EXCEPT !.error_message = ErrConvert,
                               !.metadata.conversion_completed = "False"],
              fs |-> f2, calls |-> 1]
        ELSE [s |-> [s2 EXCEPT !.output_zip_path = TRUE,
                               !.metadata.conversion_completed = "True",
                               !.metadata.options_used = s.docling_options],
              fs |-> [f2 EXCEPT !.zip = conv], calls |-> 1]

(***************************************************************************)
(* Stage: Parsing.  Both the LLM clean-up and its fallback leave a         *)
(* non-empty cleaned_markdown when the ZIP holds Markdown.                 *)
(***************************************************************************)
ParsingAgent_process(s, f) ==
    LET s1 == [s EXCEPT !.status = "parsing"]
    IN  IF ~s.output_zip_path \/ f.zip = "absent"
        THEN [s1 EXCEPT !.metadata.parsing_error = TRUE]
        ELSE IF f.zip = "empty"
        THEN [s1 EXCEPT !.metadata.parsing_error = TRUE]
        ELSE [s1 EXCEPT !.cleaned_markdown = TRUE]

\* question_extraction_node (placeholder node of the graph)
question_extraction_node(s) == [s EXCEPT !.status = "extracting"]

(***************************************************************************)
(* Stage: Validation                                                       *)
(*   r   : what _validate_with_llm returns: no result (LLM call or parse   *)
(*         failure) or a result with passed and score                      *)
(*   exc : an exception escapes inside the try block (after the ZIP was    *)
(*         read)                                                           *)
(***************************************************************************)
ValidatorResults ==
    { [none |-> TRUE,  passed |-> FALSE, score |-> 0],
      [none |-> FALSE, passed |-> TRUE,  score |-> 85],
      [none |-> FALSE, passed |-> TRUE,  score |-> 70],
      [none |-> FALSE, passed |-> FALSE, score |-> 30] }

\* a selection that skips the first entry of the list
_get_next_docling_config_skip(current_attempt) ==
    IF current_attempt < NumRetryConfigs THEN current_attempt + 1 ELSE 0

\* _get_next_docling_config: index into DOCLING_RETRY_CONFIGS (1-based; 0 = None)
_get_next_docling_config(current_attempt) ==
    LET config_index == current_attempt - 1
    IN  IF config_index < NumRetryConfigs THEN config_index + 1 ELSE 0

\* _cleanup_source_file
_cleanup_source_file(s, f) ==
    IF s.source_file_path
    THEN [s |-> [s EXCEPT !.source_file_path = FALSE], fs |-> [f EXCEPT !.source = FALSE]]
    ELSE [s |-> s, fs |-> f]

\* a validator that gives up at max_attempts without forcing validation_passed
MarkdownValidationAgent_process_unforced(s, f, maxA, r, exc) ==
    LET validation_attempts == s.validation_attempts + 1
        s1 == [s EXCEPT !.status = "validating",
                        !.validation_attempts = validation_attempts]
    IN  IF ~s.output_zip_path \/ f.zip = "absent"
        THEN [s |-> [s1 EXCEPT !.validation_passed = FALSE,
                               !.validation_feedback = "Output ZIP not found"],
              fs |-> f]
        ELSE IF f.zip = "empty"
        THEN [s |-> [s1 EXCEPT !.validation_passed = FALSE,
                               !.validation_feedback = "No markdown content found in ZIP"],
              fs |-> f]
        ELSE IF exc
        THEN _cleanup_source_file(
                 [s1 EXCEPT !.validation_passed = TRUE,
                            !.validation_feedback = "Error during validation"], f)
        ELSE
          LET next_config == _get_next_docling_config(validation_attempts)
              \* Step 4 and 5
              s2 == IF r.none
                    THEN [s1 EXCEPT !.validation_passed = TRUE,
                                    !.validation_feedback = "LLM validation unavailable, passed by default"]
                    ELSE LET s4 == [s1 EXCEPT !.validation_passed = r.passed,
                                              !.validation_feedback = "validation_result",
                                              !.metadata.validation_score = r.score]
                         IN  IF ~r.passed /\ validation_attempts < maxA /\ next_config # 0
                             THEN [s4 EXCEPT !.docling_options = next_config,
                                             !.metadata.retry_config = next_config]
                             ELSE s4
          IN  \* Step 6
              IF s2.validation_passed \/ validation_attempts >= maxA
              THEN LET c == _cleanup_source_file(s2, f)
                   IN  IF ~s2.validation_passed
                       THEN [s |-> [c.s EXCEPT !.metadata.max_attempts_reached = TRUE],
                             fs |-> c.fs]
                       ELSE c
              ELSE [s |-> s2, fs |-> f]

\* MarkdownValidationAgent.process
MarkdownValidationAgent_process(s, f, maxA, r, exc) ==
    LET validation_attempts == s.validation_attempts + 1
        s1 == [s EXCEPT !.status = "validating",
                        !.validation_attempts = validation_attempts]
    IN  IF ~s.output_zip_path \/ f.zip = "absent"
        THEN [s |-> [s1 EXCEPT !.validation_passed = FALSE,
                               !.validation_feedback = "Output ZIP not found"],
              fs |-> f]
        ELSE IF f.zip = "empty"
        THEN [s |-> [s1 EXCEPT !.validation_passed = FALSE,
                               !.validation_feedback = "No markdown content found in ZIP"],
              fs |-> f]
        ELSE IF exc
        THEN _cleanup_source_file(
                 [s1 EXCEPT !.validation_passed = TRUE,
                            !.validation_feedback = "Error during validation"], f)
        ELSE
          LET next_config == _get_next_docling_config(validation_attempts)
              \* Step 4 and 5
              s2 == IF r.none
                    THEN [s1 EXCEPT !.validation_passed = TRUE,
                                    !.validation_feedback = "LLM validation unavailable, passed by default"]
                    ELSE LET s4 == [s1 EXCEPT !.validation_passed = r.passed,
                                              !.validation_feedback = "validation_result",
                                              !.metadata.validation_score = r.score]
                         IN  IF ~r.passed /\ validation_attempts < maxA /\ next_config # 0
                             THEN [s4 EXCEPT !.docling_options = next_config,
                                             !.metadata.retry_config = next_config]
                             ELSE s4
          IN  \* Step 6
              IF s2.validation_passed \/ validation_attempts >= maxA
              THEN LET c == _cleanup_source_file(s2, f)
                   IN  IF ~s2.validation_passed
                       THEN [s |-> [c.s EXCEPT !.validation_passed = TRUE,
                                               !.metadata.max_attempts_reached = TRUE],
                             fs |-> c.fs]
                       ELSE c
              ELSE [s |-> s2, fs |-> f]

\* an edge that retries whenever attempts are left, passed or not
should_retry_ingestion_eager(s) ==
    IF s.validation_attempts < OrchestratorMaxAttempts THEN "retry" ELSE "continue"

\* should_retry_ingestion: the conditional edge after markdown_validation
should_retry_ingestion(s) ==
    IF ~s.validation_passed /\ s.validation_attempts < OrchestratorMaxAttempts
    THEN "retry"
    ELSE "continue"

(***************************************************************************)
(* Stage: Persistence                                                      *)
(*   o  : "ok" | "fail_early" (an exception before the Document row is     *)
(*        flushed) | "fail_late" (an exception after it: a Question insert *)
(*        or the commit)                                                   *)
(*   nq : number of questions the extraction LLM returned                  *)
(* Returns the new state and the committed rows.                           *)
(***************************************************************************)
PersistOutcomes == {"ok", "fail_early", "fail_late"}
DocId == "doc-1"

PersistenceAgent_process(s, f, d, o, nq) ==
    LET s1 == [s EXCEPT !.status = "persisting"]
        zip_md == s.output_zip_path /\ f.zip = "md"
        markdown_content == s.cleaned_markdown \/ zip_md
        failed(x) == [x EXCEPT !.error_message = ErrPersist, !.status = "failed"]
    IN  IF o = "fail_early"
        THEN [s |-> failed(s1), db |-> d]
        ELSE IF ~markdown_content
        THEN [s |-> [s1 EXCEPT !.status = "completed"], db |-> d]
        ELSE LET s2 == [s1 EXCEPT !.document_id = DocId]
             IN  IF o = "fail_late"
                 THEN \* db.rollback(): no row of this run remains
                      [s |-> failed(s2), db |-> d]
                 ELSE [s |-> [s2 EXCEPT !.question_ids = nq, !.status = "completed"],
                       db |-> [d EXCEPT !.documents = @ \cup {DocId}, !.questions = nq]]

(***************************************************************************)
(* Stage: Classification.                                                  *)
(*   o : "ok" | "no_results" (no rows loaded, or the LLM answered without  *)
(*       a usable list) | "llm_error" (the LLM call raised inside          *)
(*       _classify_with_llm, which returns []) | "error" (a database       *)
(*       error: an exception reaches the except block of process)          *)
(***************************************************************************)
DegradeOutcomes == {"ok", "no_results", "error"}
ClassifyOutcomes == DegradeOutcomes \cup {"llm_error"}

ClassificationAgent_process(s, d, o) ==
    LET s1 == [s EXCEPT !.status = "classifying"]
    IN  IF s.question_ids <= 0
        THEN [s |-> [s1 EXCEPT !.metadata.classified_count = 0], db |-> d]
        ELSE IF o = "error"
        THEN [s |-> [s1 EXCEPT !.metadata.classification_error = TRUE,
                               !.metadata.classified_count = 0],
              db |-> d]
        ELSE IF o = "no_results" \/ o = "llm_error"
        THEN [s |-> [s1 EXCEPT !.metadata.classified_count = 0], db |-> d]
        ELSE [s |-> [s1 EXCEPT !.metadata.classified_count = s.question_ids],
              db |-> [d EXCEPT !.classified = s.question_ids]]

(***************************************************************************)
(* Stage: Vectorization.  o: "ok" | "no_results" (no rows loaded) |        *)
(* "error" (the embedder or the database raised)                           *)
(***************************************************************************)
VectorizationAgent_process(s, d, o) ==
    LET s1 == [s EXCEPT !.status = "vectorizing"]
    IN  IF s.question_ids <= 0
        THEN [s |-> [s1 EXCEPT !.vector_ids = 0, !.metadata.embedded_count = 0], db |-> d]
        ELSE IF o = "error"
        THEN [s |-> [s1 EXCEPT !.metadata.vectorization_error = TRUE,
                               !.vector_ids = 0,
                               !.metadata.embedded_count = 0],
              db |-> d]
        ELSE IF o = "no_results"
        THEN [s |-> [s1 EXCEPT !.vector_ids = 0, !.metadata.embedded_count = 0], db |-> d]
        ELSE [s |-> [s1 EXCEPT !.vector_ids = s.question_ids,
                               !.metadata.embedded_count = s.question_ids],
              db |-> [d EXCEPT !.embedded = s.question_ids]]

\* a stage graph whose persistence edge skips classification
create_extraction_graph_skip(node, s) ==
    CASE node = "ingestion"           -> "parsing"
      [] node = "parsing"             -> "question_extraction"
      [] node = "question_extraction" -> "markdown_validation"
      [] node = "markdown_validation" ->
            IF ~s.validation_passed /\ s.validation_attempts < OrchestratorMaxAttempts
            THEN "ingestion" ELSE "persistence"
      [] node = "persistence"         -> "vectorization"
      [] node = "classification"      -> "vectorization"
      [] node = "vectorization"       -> "END"

(***************************************************************************)
(* The stage graph of create_extraction_graph: the node that follows       *)
(* `node` once it returned state s.                                        *)
(***************************************************************************)
create_extraction_graph(node, s) ==
    CASE node = "ingestion"           -> "parsing"
      [] node = "parsing"             -> "question_extraction"
      [] node = "question_extraction" -> "markdown_validation"
      [] node = "markdown_validation" ->
            IF should_retry_ingestion(s) = "retry" THEN "ingestion" ELSE "persistence"
      [] node = "persistence"         -> "classification"
      [] node = "classification"      -> "vectorization"
      [] node = "vectorization"       -> "END"

(***************************************************************************)
(* Actions of the pipeline                                                 *)
(***************************************************************************)
\* POST /process-doc: create the Job row, spawn the background task
process_document ==
    /\ pc = "init"
    /\ job = NoJob
    /\ job' = create_job(now)
    /\ reg_log' = Append(reg_log, "queued")
    /\ pc' = "spawned"
    /\ UNCHANGED <<max_attempts, file_known, state, fs, db, now, trace, fin, upd, ext>>

\* process_document_background: build initial_state, enter the graph
start_pipeline ==
    /\ pc = "spawned"
    /\ state' = initial_state
    /\ pc' = "ingestion"
    /\ UNCHANGED <<max_attempts, file_known, fs, db, job, now, trace, reg_log, fin, upd, ext>>

ingestion_node ==
    /\ pc = "ingestion"
    /\ \E dl \in DownloadOutcomes, conv \in ConvertOutcomes :
         LET r == process_by_file(state, fs, file_known, dl, conv)
         IN  /\ state' = r.s
             /\ fs' = r.fs
             /\ pc' = create_extraction_graph("ingestion", r.s)
             /\ converter' = IF r.calls = 0 THEN converter
                             ELSE [converter EXCEPT
                                      !.calls = @ + r.calls,
                                      !.last_attempt = state.validation_attempts + 1,
                                      !.last_options = DoclingOptions_from_dict(state.docling_options)]
    /\ trace' = Append(trace, "ingestion")
    /\ UNCHANGED <<max_attempts, file_known, db, job, now, reg_log, fin, upd,
                   breaker_vars, rt, faults, temp_vars, class_vars>>

parsing_node ==
    /\ pc = "parsing"
    /\ state' = ParsingAgent_process(state, fs)
    /\ pc' = create_extraction_graph("parsing", state')
    /\ trace' = Append(trace, "parsing")
    /\ UNCHANGED <<max_attempts, file_known, fs, db, job, now, reg_log, fin, upd, ext>>

question_extraction ==
    /\ pc = "question_extraction"
    /\ state' = question_extraction_node(state)
    /\ pc' = create_extraction_graph("question_extraction", state')
    /\ trace' = Append(trace, "question_extraction")
    /\ UNCHANGED <<max_attempts, file_known, fs, db, job, now, reg_log, fin, upd, ext>>

markdown_validation_node ==
    /\ pc = "markdown_validation"
    /\ \E r \in ValidatorResults, exc \in BOOLEAN :
         LET v == MarkdownValidationAgent_process(state, fs, max_attempts, r, exc)
         IN  /\ state' = v.s
             /\ fs' = v.fs
             /\ pc' = create_extraction_graph("markdown_validation", v.s)
    /\ trace' = Append(trace, "markdown_validation")
    /\ UNCHANGED <<max_attempts, file_known, db, job, now, reg_log, fin, upd, ext>>

persistence_node ==
    /\ pc = "persistence"
    /\ \E o \in PersistOutcomes, nq \in 0..MaxQuestions :
         LET p == PersistenceAgent_process(state, fs, db, o, nq)
         IN  /\ state' = p.s
             /\ db' = p.db
             /\ pc' = create_extraction_graph("persistence", p.s)
    /\ trace' = Append(trace, "persistence")
    /\ UNCHANGED <<max_attempts, file_known, fs, job, now, reg_log, fin, upd, ext>>

classification_node ==
    /\ pc = "classification"
    /\ \E o \in ClassifyOutcomes :
         LET c == ClassificationAgent_process(state, db, o)
         IN  /\ state' = c.s
             /\ db' = c.db
             /\ pc' = create_extraction_graph("classification", c.s)
             /\ faults' = IF state.question_ids > 0 /\ o \in {"llm_error", "error"}
                          THEN faults \cup {<<"classification", o>>}
                          ELSE faults
    /\ trace' = Append(trace, "classification")
    /\ UNCHANGED <<max_attempts, file_known, fs, job, now, reg_log, fin, upd,
                   breaker_vars, rt, converter, temp_vars, class_vars>>

vectorization_node ==
    /\ pc = "vectorization"
    /\ \E o \in DegradeOutcomes :
         LET v == VectorizationAgent_process(state, db, o)
         IN  /\ state' = v.s
             /\ db' = v.db
             /\ pc' = create_extraction_graph("vectorization", v.s)
             /\ faults' = IF state.question_ids > 0 /\ o = "error"
                          THEN faults \cup {<<"vectorization", o>>}
                          ELSE faults
    /\ trace' = Append(trace, "vectorization")
    /\ UNCHANGED <<max_attempts, file_known, fs, job, now, reg_log, fin, upd,
                   breaker_vars, rt, converter, temp_vars, class_vars>>

(***************************************************************************)
(* process_document_background, after graph.invoke returned final_state    *)
(***************************************************************************)
has_content(s) == s.cleaned_markdown \/ s.parsed_markdown \/ s.raw_content

len_question_ids(s) == IF s.question_ids = NoList THEN 0 ELSE s.question_ids

\* a final write that tests for missing content before the recorded error
mark_job_content_first(j, s, t) ==
    IF s.document_id = None /\ ~(s.cleaned_markdown \/ s.parsed_markdown \/ s.raw_content)
    THEN fail_job(j, NoContentMsg, t)
    ELSE IF s.error_message # None
    THEN fail_job(j, s.error_message, t)
    ELSE complete_job(j, s.document_id, IF s.question_ids = NoList THEN 0 ELSE s.question_ids, t)

\* the registry write chosen for the final state s, applied to Job row j
mark_job(j, s, t) ==
    IF s.error_message # None
    THEN fail_job(j, s.error_message, t)
    ELSE IF s.document_id = None /\ ~has_content(s)
    THEN fail_job(j, NoContentMsg, t)
    ELSE complete_job(j, s.document_id, len_question_ids(s), t)

\* first    : SessionLocal() and the chosen registry write succeed ("ok") or
\*            one of them raises ("raise"; the failed write changes nothing)
\* fallback : outcome of fail_job(db, job_id, str(e)) in the except block
WriteOutcomes == {"ok", "raise"}

process_document_background ==
    /\ pc = "END"
    /\ \E first \in WriteOutcomes, fallback \in WriteOutcomes :
         /\ first = "ok" => fallback = "ok"
         /\ job' = IF first = "ok" THEN mark_job(job, state, now)
                   ELSE IF fallback = "ok" THEN fail_job(job, ErrDb, now)
                   ELSE job
         /\ fin' = [first |-> first, fallback |-> IF first = "ok" THEN None ELSE fallback]
    /\ reg_log' = IF job'.status # job.status THEN Append(reg_log, job'.status) ELSE reg_log
    /\ pc' = "done"
    /\ UNCHANGED <<max_attempts, file_known, state, fs, db, now, trace, upd, ext>>

(***************************************************************************)
(* The orchestrator's job status update with bounded retry                 *)
(* (_update_job_status).  outs[i] tells whether the i-th call of           *)
(* JobService.update_status succeeds.  r records what the helper did.      *)
(***************************************************************************)
\* a helper that closes the session only after a successful write
RECURSIVE _update_job_status_leak(_, _, _)
_update_job_status_leak(attempt, outs, r) ==
    IF attempt > UpdateStatusAttempts
    THEN [r EXCEPT !.critical = TRUE]
    ELSE LET r1 == [r EXCEPT !.opened = @ + 1, !.calls = @ + 1]
         IN  IF outs[attempt]
             THEN [r1 EXCEPT !.closed = @ + 1, !.succeeded = TRUE]
             ELSE _update_job_status_leak(attempt + 1, outs, r1)

RECURSIVE _update_job_status(_, _, _)
_update_job_status(attempt, outs, r) ==
    IF attempt > UpdateStatusAttempts
    THEN [r EXCEPT !.critical = TRUE]
    ELSE LET r1 == [r EXCEPT !.opened = @ + 1, !.calls = @ + 1]
         IN  IF outs[attempt]
             THEN [r1 EXCEPT !.closed = @ + 1, !.succeeded = TRUE]
             ELSE _update_job_status(attempt + 1, outs, [r1 EXCEPT !.closed = @ + 1])

(***************************************************************************)
(* Job Registry operations called in any order on one job                  *)
(***************************************************************************)
ErrorArgs == {None, "boom"}
DocumentArgs == {None, DocId}

RegCreate ==
    /\ job = NoJob
    /\ job' = create_job(now)
    /\ UNCHANGED <<max_attempts, file_known, pc, state, fs, db, now, trace, reg_log, fin, upd, ext>>

RegUpdateStatus ==
    /\ job # NoJob
    /\ \E status \in JobStatuses, e \in ErrorArgs :
         job' = update_status(job, status, e, now)
    /\ UNCHANGED <<max_attempts, file_known, pc, state, fs, db, now, trace, reg_log, fin, upd, ext>>

RegComplete ==
    /\ job # NoJob
    /\ \E d \in DocumentArgs, n \in 0..MaxQuestions :
         job' = complete_job(job, d, n, now)
    /\ UNCHANGED <<max_attempts, file_known, pc, state, fs, db, now, trace, reg_log, fin, upd, ext>>

RegFail ==
    /\ job # NoJob
    /\ \E e \in {"boom", NoContentMsg} :
         job' = fail_job(job, e, now)
    /\ UNCHANGED <<max_attempts, file_known, pc, state, fs, db, now, trace, reg_log, fin, upd, ext>>

RegUpdateJobStatus ==
    /\ job # NoJob
    /\ \E status \in JobStatuses, e \in ErrorArgs,
          outs \in [1..UpdateStatusAttempts -> BOOLEAN] :
         LET r == _update_job_status(1, outs, [NoUpd EXCEPT !.target = status, !.outs = outs])
         IN  /\ upd' = r
             /\ job' = IF r.succeeded THEN update_status(job, status, e, now) ELSE job
    /\ UNCHANGED <<max_attempts, file_known, pc, state, fs, db, now, trace, reg_log, fin, ext>>

\* time passes between any two steps
Tick ==
    /\ now < MaxTime
    /\ now' = now + 1
    /\ UNCHANGED <<max_attempts, file_known, pc, state, fs, db, job, trace, reg_log, fin, upd, ext>>

\* one job, from POST /process-doc to the final registry write
Next ==
    \/ process_document
    \/ start_pipeline
    \/ ingestion_node
    \/ parsing_node
    \/ question_extraction
    \/ markdown_validation_node
    \/ persistence_node
    \/ classification_node
    \/ vectorization_node
    \/ process_document_background
    \/ Tick

Spec == Init /\ [][Next]_vars

\* the Job Registry driven by an arbitrary caller
NextRegistry ==
    \/ RegCreate
    \/ RegUpdateStatus
    \/ RegComplete
    \/ RegFail
    \/ Tick

SpecRegistry == Init /\ [][NextRegistry]_vars

\* the orchestrator's status update helper called with any stage tag
NextUpdate ==
    \/ RegCreate
    \/ RegUpdateJobStatus
    \/ Tick

SpecUpdate == Init /\ [][NextUpdate]_vars

(***************************************************************************)
(* Threads calling one circuit breaker                                     *)
(***************************************************************************)
\* no job was submitted: a deployment with the default settings
InitIdle ==
    /\ max_attempts = DefaultMaxValidationAttempts
    /\ file_known = TRUE
    /\ pc = "init"
    /\ state = initial_state
    /\ fs = NoFiles
    /\ db = EmptyDb
    /\ job = NoJob
    /\ now = 0
    /\ trace = <<>>
    /\ reg_log = <<>>
    /\ fin = NoFin
    /\ upd = NoUpd
    /\ converter = NoConverter

InitBreaker ==
    /\ InitIdle
    /\ \E failure_threshold \in 1..MaxThreshold, recovery_timeout \in 0..MaxRecovery :
         cb = CircuitBreaker("converter", failure_threshold, recovery_timeout)
    /\ cb_lock = NoThread
    /\ thr = [t \in Threads |-> IdleThread]
    /\ cb_obs = NoObs
    /\ rt = NoRetry
    /\ faults = {}
    /\ InitTemp
    /\ InitQuestions

\* thread t reads cb.state
read_state(t) ==
    /\ thr[t].pc = "idle"
    /\ with_lock(cb_lock, t)
    /\ cb' = CircuitBreaker_state(cb, now)
    /\ cb_obs' = [cb_obs EXCEPT !.op = "state", !.thread = t,
                                !.pre = cb._state, !.post = cb'._state,
                                !.elapsed = now - cb._last_failure_time,
                                !.at = now, !.err = NoError, !.cooldown = 0]
    /\ UNCHANGED <<cb_lock, thr, rt, converter, faults, now, pipeline_vars>>

\* thread t calls cb.record_success()
call_record_success(t) ==
    /\ thr[t].pc = "idle"
    /\ with_lock(cb_lock, t)
    /\ cb' = record_success(cb)
    /\ cb_obs' = [cb_obs EXCEPT !.op = "record_success", !.thread = t,
                                !.pre = cb._state, !.post = cb'._state,
                                !.elapsed = 0, !.at = now, !.err = NoError,
                                !.cooldown = 0,
                                !.consecutive = 0, !.recorders = {}]
    /\ UNCHANGED <<cb_lock, thr, rt, converter, faults, now, pipeline_vars>>

\* thread t enters cb.record_failure(): it takes the lock and reads the counter
record_failure_enter(t) ==
    /\ thr[t].pc = "idle"
    /\ with_lock(cb_lock, t)
    /\ cb._failure_count < MaxFailures
    /\ cb_lock' = t
    /\ thr' = [thr EXCEPT ![t] = [IdleThread EXCEPT !.pc = "record_failure",
                                                   !.count = cb._failure_count]]
    /\ UNCHANGED <<cb, cb_obs, rt, converter, faults, now, pipeline_vars>>

\* thread t writes the counter, the failure time and the state, and releases
\* the lock
record_failure_exit(t) ==
    /\ thr[t].pc = "record_failure"
    /\ cb' = record_failure(cb, thr[t].count, now)
    /\ cb_lock' = NoThread
    /\ thr' = [thr EXCEPT ![t] = IdleThread]
    /\ cb_obs' = [cb_obs EXCEPT !.op = "record_failure", !.thread = t,
                                !.pre = cb._state, !.post = cb'._state,
                                !.elapsed = 0, !.at = now, !.err = NoError,
                                !.cooldown = 0,
                                !.consecutive = @ + 1,
                                !.recorders = @ \cup {t}]
    /\ UNCHANGED <<rt, converter, faults, now, pipeline_vars>>

\* thread t enters cb.check(): current_state = self.state
check_enter(t) ==
    /\ thr[t].pc = "idle"
    /\ with_lock(cb_lock, t)
    /\ cb' = CircuitBreaker_state(cb, now)
    /\ thr' = [thr EXCEPT ![t] = [IdleThread EXCEPT !.pc = "check",
                                                   !.current_state = cb'._state,
                                                   !.pre = cb._state,
                                                   !.seen = now - cb._last_failure_time]]
    /\ cb_obs' = [cb_obs EXCEPT !.op = "state", !.thread = t,
                                !.pre = cb._state, !.post = cb'._state,
                                !.elapsed = now - cb._last_failure_time,
                                !.at = now, !.err = NoError, !.cooldown = 0]
    /\ UNCHANGED <<cb_lock, rt, converter, faults, now, pipeline_vars>>

\* thread t leaves cb.check(): it returns, or reads the clock and the failure
\* time again (outside the lock) and raises
check_exit(t) ==
    /\ thr[t].pc = "check"
    /\ thr' = [thr EXCEPT ![t] = IdleThread]
    /\ cb_obs' = [cb_obs EXCEPT !.op = "check", !.thread = t,
                                !.pre = thr[t].pre, !.post = thr[t].current_state,
                                !.elapsed = thr[t].seen, !.at = now,
                                !.err = check(thr[t].current_state, cb, now),
                                !.cooldown = cb.recovery_timeout - (now - cb._last_failure_time)]
    /\ UNCHANGED <<cb, cb_lock, rt, converter, faults, now, pipeline_vars>>

NextBreaker ==
    \/ \E t \in Threads : read_state(t)
    \/ \E t \in Threads : call_record_success(t)
    \/ \E t \in Threads : record_failure_enter(t)
    \/ \E t \in Threads : record_failure_exit(t)
    \/ \E t \in Threads : check_enter(t)
    \/ \E t \in Threads : check_exit(t)
    \/ Tick

SpecBreaker == InitBreaker /\ [][NextBreaker]_vars

(***************************************************************************)
(* One call of a function wrapped by retry_with_backoff                    *)
(***************************************************************************)
\* the decorated function is called: the decorator's arguments are chosen
retry_call ==
    /\ rt.status = "idle"
    /\ \E max_retries \in 0..MaxRetries, base_delay \in 1..MaxDelayParam,
          exponential_base \in 1..MaxDelayParam, retryable_exceptions \in RetryableSets :
         rt' = retry_with_backoff(max_retries, base_delay, exponential_base,
                                  retryable_exceptions)
    /\ UNCHANGED <<breaker_vars, converter, faults, now, pipeline_vars>>

\* one iteration of `for attempt in range(max_retries + 1)`
wrapper_iteration ==
    /\ rt.status = "running"
    /\ \E out \in CallOutcomes : rt' = wrapper(rt, out)
    /\ UNCHANGED <<breaker_vars, converter, faults, now, pipeline_vars>>

NextRetry ==
    \/ retry_call
    \/ wrapper_iteration

InitRetry == InitIdle /\ InitExt

SpecRetry == InitRetry /\ [][NextRetry]_vars

(***************************************************************************)
(* Jobs running at the same time: the file operations of ingestion and     *)
(* validation of each job, interleaved with those of the other jobs        *)
(***************************************************************************)
\* POST /process-doc for job j with some document_filename
temp_submit(j) ==
    /\ tjobs[j].pc = "new"
    /\ \E filename \in Filenames :
         tjobs' = [tjobs EXCEPT ![j] = [@ EXCEPT !.pc = "ingestion",
                                                  !.document_filename = filename]]
    /\ UNCHANGED <<tfiles, max_attempts, file_known, pc, state, fs, db, job, now, trace,
                   reg_log, fin, upd, cb, cb_lock, thr, cb_obs, rt, converter, faults, qrows>>

\* process_by_file, step 1: reuse the source of an earlier attempt if it is
\* still there, else download_to_temp (which may raise)
temp_download(j) ==
    /\ tjobs[j].pc = "ingestion"
    /\ LET t == tjobs[j]
           is_retry == t.validation_attempts > 0 /\ t.source_file_path # NoPath
           reuse == is_retry /\ tfiles[t.source_file_path] # Absent
           file_path == download_to_temp(t.document_filename)
       IN  IF reuse
           THEN /\ tjobs' = [tjobs EXCEPT ![j] = [@ EXCEPT !.pc = "convert"]]
                /\ UNCHANGED tfiles
           ELSE \E dl \in DownloadOutcomes :
                  IF dl = "fail"
                  THEN /\ tjobs' = [tjobs EXCEPT ![j] = [@ EXCEPT !.pc = "validation"]]
                       /\ UNCHANGED tfiles
                  ELSE /\ tfiles' = [tfiles EXCEPT ![file_path] = j]
                       /\ tjobs' = [tjobs EXCEPT ![j] = [@ EXCEPT !.pc = "convert",
                                                                !.source_file_path = file_path]]
    /\ UNCHANGED <<max_attempts, file_known, pc, state, fs, db, job, now, trace,
                   reg_log, fin, upd, cb, cb_lock, thr, cb_obs, rt, converter, faults, qrows>>

\* process_by_file, step 2: convert_file_to_zip reads the source file and, on
\* success, writes output.zip
temp_convert(j) ==
    /\ tjobs[j].pc = "convert"
    /\ LET t == tjobs[j]
           zip == output_zip_path(j)
       IN  \E conv \in {"ok", "fail"} :
             IF tfiles[t.source_file_path] = Absent \/ conv = "fail"
             THEN \* "File not found" or an error variant
                  /\ tjobs' = [tjobs EXCEPT ![j] = [@ EXCEPT !.pc = "validation"]]
                  /\ UNCHANGED tfiles
             ELSE /\ tfiles' = [tfiles EXCEPT ![zip] = tfiles[t.source_file_path]]
                  /\ tjobs' = [tjobs EXCEPT ![j] = [@ EXCEPT !.pc = "validation",
                                                           !.output_zip_path = zip]]
    /\ UNCHANGED <<max_attempts, file_known, pc, state, fs, db, job, now, trace,
                   reg_log, fin, upd, cb, cb_lock, thr, cb_obs, rt, converter, faults, qrows>>

\* MarkdownValidationAgent.process with _cleanup_source_file, followed by
\* should_retry_ingestion
temp_validate(j) ==
    /\ tjobs[j].pc = "validation"
    /\ LET t == tjobs[j]
           validation_attempts == t.validation_attempts + 1
           zip_found == t.output_zip_path # NoPath /\ tfiles[t.output_zip_path] # Absent
       IN  \E passed \in BOOLEAN :
             LET final == zip_found /\ (passed \/ validation_attempts >= DefaultMaxValidationAttempts)
                 cleanup == final /\ t.source_file_path # NoPath
                 validation_passed == final
                 retry == ~validation_passed /\ validation_attempts < OrchestratorMaxAttempts
             IN  /\ tfiles' = IF cleanup THEN [tfiles EXCEPT ![t.source_file_path] = Absent]
                              ELSE tfiles
                 /\ tjobs' = [tjobs EXCEPT ![j] =
                                 [@ EXCEPT !.validation_attempts = validation_attempts,
                                           !.validation_passed = validation_passed,
                                           !.source_file_path = IF cleanup THEN NoPath ELSE @,
                                           !.pc = IF retry THEN "ingestion" ELSE "done"]]
    /\ UNCHANGED <<max_attempts, file_known, pc, state, fs, db, job, now, trace,
                   reg_log, fin, upd, cb, cb_lock, thr, cb_obs, rt, converter, faults, qrows>>

NextTemp ==
    \/ \E j \in JobIds : temp_submit(j)
    \/ \E j \in JobIds : temp_download(j)
    \/ \E j \in JobIds : temp_convert(j)
    \/ \E j \in JobIds : temp_validate(j)

SpecTemp == InitRetry /\ [][NextTemp]_vars

(***************************************************************************)
(* Classification of persisted questions                                   *)
(***************************************************************************)
\* ClassificationAgent.process, steps 3 and 4: the LLM answers for the
\* questions of classification_map; the rows are updated and committed, or
\* the transaction is rolled back
classification_process ==
    /\ \E answered \in SUBSET QuestionIds :
         \E classification_map \in [answered -> Classifications] :
           \E commit \in {"ok", "error"} :
             qrows' = IF commit = "ok"
                      THEN [q \in QuestionIds |->
                              IF q \in answered
                              THEN apply_classification(qrows[q], classification_map[q])
                              ELSE qrows[q]]
                      ELSE qrows
    /\ UNCHANGED <<max_attempts, file_known, pc, state, fs, db, job, now, trace, reg_log,
                   fin, upd, cb, cb_lock, thr, cb_obs, rt, converter, faults, tjobs, tfiles>>

\* ClassificationAgent.classify_single_question
classify_single_question(question_id) ==
    /\ \E classification \in Classifications :
         qrows' = [qrows EXCEPT ![question_id] = apply_classification(@, classification)]
    /\ UNCHANGED <<max_attempts, file_known, pc, state, fs, db, job, now, trace, reg_log,
                   fin, upd, cb, cb_lock, thr, cb_obs, rt, converter, faults, tjobs, tfiles>>

NextClassify ==
    \/ classification_process
    \/ \E question_id \in QuestionIds : classify_single_question(question_id)

SpecClassify == InitRetry /\ [][NextClassify]_vars

TypeOK ==
    /\ max_attempts \in 1..(MaxConfigAttempts + 1)
    /\ pc \in {"init", "spawned", "question_extraction", "END", "done"} \cup Stages
    /\ state.validation_attempts \in Nat
    /\ job.status \in JobStatuses \cup {"absent"}
    /\ now \in 0..(MaxTime + 1)

(***************************************************************************)
(* Properties                                                              *)
(***************************************************************************)
\* the six stages among the invoked nodes, in invocation order
IsStage(n) == n \in Stages
StageTrace == SelectSeq(trace, IsStage)
Count(seq, x) == Cardinality({i \in 1..Len(seq) : seq[i] = x})
LastIndex(seq, x) == CHOOSE i \in 0..Len(seq) :
                        /\ (i > 0 => seq[i] = x)
                        /\ \A k \in (i + 1)..Len(seq) : seq[k] # x
                        /\ (i = 0 => \A k \in 1..Len(seq) : seq[k] # x)
\* the stages that may directly follow a stage in the fixed graph
StageSucc(n) ==
    CASE n = "ingestion"           -> {"parsing"}
      [] n = "parsing"             -> {"markdown_validation"}
      [] n = "markdown_validation" -> {"ingestion", "persistence"}
      [] n = "persistence"         -> {"classification"}
      [] n = "classification"      -> {"vectorization"}
      [] n = "vectorization"       -> {}

\* C1 (as claimed): each time the validation stage ran, the orchestrator
\* routes back to ingestion if and only if validation_passed is false and
\* validation_attempts is below the configured max_attempts; otherwise it
\* routes to persistence; it never routes to parsing.
C1_RetryIffBelowConfiguredMax ==
    [][(pc = "markdown_validation" /\ pc' # pc) =>
          /\ (pc' = "ingestion") <=>
                (~state'.validation_passed /\ state'.validation_attempts < max_attempts)
          /\ pc' \in {"ingestion", "persistence"}]_vars

\* C2 (as claimed): in every reachable state validation_attempts is at most
\* the configured max_attempts.
C2_AttemptsAtMostMax == state.validation_attempts <= max_attempts

\* C3: the stages run one after the other along the edges of the fixed graph,
\* starting with ingestion; when the graph has ended every stage ran at least
\* once and persistence, classification and vectorization ran exactly once,
\* in that order, after the last validation - whatever errors were recorded.
C3_EveryStageInGraphOrder ==
    LET st == StageTrace
    IN  /\ (Len(st) > 0 => st[1] = "ingestion")
        /\ \A i \in 1..(Len(st) - 1) : st[i + 1] \in StageSucc(st[i])
        /\ (pc \in Stages /\ Len(st) > 0) => pc \in StageSucc(st[Len(st)])
        /\ pc \in {"END", "done"} =>
              /\ \A n \in Stages : Count(st, n) >= 1
              /\ Count(st, "persistence") = 1
              /\ Count(st, "classification") = 1
              /\ Count(st, "vectorization") = 1
              /\ Len(st) >= 3
              /\ st[Len(st) - 2] = "persistence"
              /\ st[Len(st) - 1] = "classification"
              /\ st[Len(st)] = "vectorization"
              /\ LastIndex(st, "markdown_validation") = Len(st) - 3

\* C3 witness: a run that retried ingestion and recorded an error has ended
C3_Witness ==
    /\ pc = "done"
    /\ state.error_message # None
    /\ Count(StageTrace, "ingestion") > 1
    /\ state.document_id = None

\* C4 (as claimed): once the background task has run to its end the job is
\* marked completed or failed, never left queued or in an in-progress stage.
C4_JobEndsTerminal == pc = "done" => job.status \in TerminalStatuses

\* C5 (as claimed): when the run has finished the job is failed with the
\* "No content extracted" message if no document was created and no Markdown
\* was produced, and completed in every other case.
C5_FailedOnlyWithoutContent ==
    pc = "done" =>
        IF state.document_id = None /\ ~has_content(state)
        THEN job.status = "failed" /\ job.error_message = NoContentMsg
        ELSE job.status = "completed"

\* C5 (amended): when the run has finished and the registry accepted the
\* final write, the job is failed with the error_message an agent recorded if
\* there is one (whether or not a document or Markdown exists); otherwise
\* failed with the "No content extracted" message if no document was created
\* and no Markdown was produced; otherwise completed.  When the registry write
\* fails, the job is failed with that failure's text, or stays queued when
\* that write fails as well.
C5_ErrorFirstThenContent ==
    pc = "done" =>
        CASE fin.first = "ok" ->
                IF state.error_message # None
                THEN job.status = "failed" /\ job.error_message = state.error_message
                ELSE IF state.document_id = None /\ ~has_content(state)
                THEN job.status = "failed" /\ job.error_message = NoContentMsg
                ELSE job.status = "completed" /\ job.error_message = None
          [] fin.first = "raise" /\ fin.fallback = "ok" ->
                job.status = "failed" /\ job.error_message = ErrDb
          [] OTHER -> job.status = "queued"

\* C5 witness: a finished run that produced Markdown and recorded an error is
\* marked failed with that error; so is one without any content
C5_Witness ==
    /\ pc = "done"
    /\ fin.first = "ok"
    /\ state.error_message = ErrConvert
    /\ ~has_content(state)
    /\ state.document_id = None
    /\ job.status = "failed"
    /\ job.error_message = ErrConvert

\* C6: a completed job has a document id and a question count of at least 0,
\* and a job has a document id only when it is completed.
C6_CompletedHasDocument ==
    /\ job.status = "completed" => (job.document_id # None /\ job.question_count >= 0)
    /\ job.document_id # None => job.status = "completed"

\* C6 witness: a job completed by the background task after persistence
C6_Witness ==
    /\ pc = "done"
    /\ job.status = "completed"
    /\ job.document_id = DocId
    /\ db.documents = {DocId}

\* C7 (as claimed): after any sequence of registry operations completed_at is
\* set if and only if the status is completed or failed.
C7_CompletedAtIffTerminal ==
    job # NoJob => ((job.completed_at # NoTime) <=> (job.status \in TerminalStatuses))

\* C8 (as claimed): a completed job has created_at, started_at and
\* completed_at set, with completed_at >= started_at >= created_at.
C8_CompletedTimestampsOrdered ==
    job.status = "completed" =>
        /\ job.created_at # NoTime
        /\ job.started_at # NoTime
        /\ job.completed_at # NoTime
        /\ job.completed_at >= job.started_at
        /\ job.started_at >= job.created_at

\* C9: the status update helper calls update_status at most 3 times and stops
\* at the first success; every session it opened is closed; when all 3 calls
\* fail it logs at CRITICAL and still returns without raising; after a
\* success the job carries the requested status.
C9_BoundedStatusRetry ==
    upd # NoUpd =>
        /\ upd.calls \in 1..3
        /\ \A i \in 1..(upd.calls - 1) : ~upd.outs[i]
        /\ upd.succeeded <=> upd.outs[upd.calls]
        /\ upd.succeeded => job.status = upd.target
        /\ upd.opened = upd.calls
        /\ upd.closed = upd.opened
        /\ upd.critical <=> (upd.calls = 3 /\ ~upd.succeeded)
        /\ ~upd.raised

\* C9 witness: all three writes failed
C9_Witness ==
    /\ upd.calls = 3
    /\ ~upd.succeeded
    /\ upd.critical
    /\ upd.closed = 3
    /\ job.status # upd.target

\* C10 (as claimed): once a stage has run the stored status has left queued,
\* and a job that is completed or failed went through an in-progress tag.
C10_StatusPassesStageTags ==
    /\ Len(trace) > 0 => job.status # "queued"
    /\ job.status \in TerminalStatuses =>
          \E i \in 1..Len(reg_log) : reg_log[i] \in InProgressStatuses

\* C11: a breaker starts CLOSED; while fewer than failure_threshold failures
\* were recorded since the last success (or the construction) it is CLOSED;
\* right after the failure that makes the count reach failure_threshold it is
\* OPEN; the counter equals the number of failures recorded by all threads
\* together (none is lost) and a recorded success resets it.
C11_OpensAtThreshold ==
    /\ cb_obs.op = None => cb._state = "closed"
    /\ cb._failure_count = cb_obs.consecutive
    /\ cb_obs.consecutive < cb.failure_threshold => cb._state = "closed"
    /\ cb_obs.consecutive >= cb.failure_threshold => cb._state \in {"open", "half_open"}
    /\ (cb_obs.op = "record_failure" /\ cb_obs.consecutive >= cb.failure_threshold) =>
          cb._state = "open"
    /\ cb_obs.op = "record_success" => (cb._failure_count = 0 /\ cb._state = "closed")

\* C11 witness: the failures that opened the breaker were recorded by
\* different threads
C11_Witness ==
    /\ cb.failure_threshold >= 2
    /\ cb_obs.op = "record_failure"
    /\ cb_obs.consecutive = cb.failure_threshold
    /\ cb_obs.recorders = Threads
    /\ cb._state = "open"
    /\ cb_obs.pre = "closed"

\* C12: a read of the state of an OPEN breaker moves it to HALF_OPEN if at
\* least recovery_timeout has passed since the last recorded failure and
\* leaves it OPEN otherwise; nothing else moves a breaker from OPEN to
\* HALF_OPEN; a failure recorded while OPEN leaves it OPEN and makes the
\* cool-down start again at the time of that failure.
C12_HalfOpenOnReadAfterTimeout ==
    /\ (cb_obs.op = "state" /\ cb_obs.pre = "open") =>
          cb_obs.post = IF cb_obs.elapsed >= cb.recovery_timeout THEN "half_open" ELSE "open"
    /\ (cb_obs.pre = "open" /\ cb_obs.post = "half_open") =>
          (cb_obs.op \in {"state", "check"} /\ cb_obs.elapsed >= cb.recovery_timeout)
    /\ cb_obs.post = "half_open" => cb_obs.pre \in {"open", "half_open"}
    /\ (cb_obs.op = "record_failure" /\ cb_obs.pre = "open") =>
          (cb._state = "open" /\ cb._last_failure_time = cb_obs.at)

\* C12 witness: a read exactly recovery_timeout after a failure that was
\* recorded while the breaker was already OPEN
C12_Witness ==
    /\ cb_obs.op = "state"
    /\ cb_obs.pre = "open"
    /\ cb_obs.post = "half_open"
    /\ cb_obs.elapsed = cb.recovery_timeout
    /\ cb.recovery_timeout > 0
    /\ cb._failure_count > cb.failure_threshold

\* C13: a success recorded while HALF_OPEN closes the breaker and sets the
\* failure counter to zero; a failure recorded while HALF_OPEN opens it again
\* and sets the time of the last failure to the time of that failure.
C13_TrialCallDecides ==
    /\ (cb_obs.op = "record_success" /\ cb_obs.pre = "half_open") =>
          (cb._state = "closed" /\ cb._failure_count = 0)
    /\ (cb_obs.op = "record_failure" /\ cb_obs.pre = "half_open") =>
          (cb._state = "open" /\ cb._last_failure_time = cb_obs.at)

\* C13 witness: the trial call of a half-open breaker failed later than the
\* failure that opened it
C13_Witness ==
    /\ cb_obs.op = "record_failure"
    /\ cb_obs.pre = "half_open"
    /\ cb._state = "open"
    /\ cb._last_failure_time > 0

\* C14 (as claimed): a check() that reads an OPEN breaker before its
\* recovery_timeout has passed raises CircuitOpen naming the service, with
\* retry_after = recovery_timeout - elapsed > 0; a check() that finds the
\* breaker CLOSED or HALF_OPEN does not raise.
C14_RejectsWithPositiveCooldown ==
    cb_obs.op = "check" =>
        /\ (cb_obs.pre = "open" /\ cb_obs.elapsed < cb.recovery_timeout) => cb_obs.err.raised
        /\ cb_obs.post \in {"closed", "half_open"} => ~cb_obs.err.raised
        /\ cb_obs.err.raised =>
              /\ cb_obs.err.service_name = cb.service_name
              /\ cb_obs.err.retry_after = cb_obs.cooldown
              /\ cb_obs.err.retry_after > 0

\* C14 (amended): a check() that reads an OPEN breaker before its
\* recovery_timeout has passed raises CircuitOpen naming the service; its
\* retry_after is the cool-down left when the error is built, clamped at 0:
\* max(0, recovery_timeout - time since the last recorded failure), which is
\* greater than 0 unless the cool-down ran out after check() read the state.
\* A check() that finds the breaker CLOSED or HALF_OPEN does not raise.
C14_RejectsWithClampedCooldown ==
    cb_obs.op = "check" =>
        /\ (cb_obs.pre = "open" /\ cb_obs.elapsed < cb.recovery_timeout) => cb_obs.err.raised
        /\ cb_obs.post \in {"closed", "half_open"} => ~cb_obs.err.raised
        /\ cb_obs.err.raised =>
              /\ cb_obs.err.service_name = cb.service_name
              /\ cb_obs.err.retry_after >= 0
              /\ cb_obs.cooldown > 0 => cb_obs.err.retry_after = cb_obs.cooldown
              /\ cb_obs.cooldown <= 0 => cb_obs.err.retry_after = 0

\* C14 witness: a check() rejected with the whole cool-down still to go
C14_Witness ==
    /\ cb_obs.op = "check"
    /\ cb_obs.err.raised
    /\ cb_obs.err.service_name = "converter"
    /\ cb_obs.err.retry_after = cb.recovery_timeout
    /\ cb.recovery_timeout > 1

\* C15: the wrapped function is called at most max_retries + 1 times and the
\* wrapper goes on only after a retryable failure; a success on call k is
\* returned after exactly k calls and k - 1 sleeps; when max_retries + 1 calls
\* failed with a retryable failure the failure of the last call is raised
\* after exactly max_retries sleeps.
C15_CallsUntilSuccessOrExhaustion ==
    rt.status # "idle" =>
        /\ rt.calls = Len(rt.outs)
        /\ rt.calls <= rt.max_retries + 1
        /\ \A i \in 1..(rt.calls - 1) : rt.outs[i] \in rt.retryable_exceptions
        /\ rt.status = "running" =>
              /\ rt.calls <= rt.max_retries
              /\ rt.raised = None /\ rt.result = None
              /\ \A i \in 1..rt.calls : rt.outs[i] \in rt.retryable_exceptions
        /\ rt.status = "returned" =>
              /\ rt.calls >= 1
              /\ rt.outs[rt.calls] = "ok"
              /\ rt.result = <<"value", rt.calls>>
              /\ rt.raised = None
              /\ Len(rt.sleeps) = rt.calls - 1
        /\ (rt.status = "raised" /\ rt.outs[rt.calls] \in rt.retryable_exceptions) =>
              /\ rt.calls = rt.max_retries + 1
              /\ Len(rt.sleeps) = rt.max_retries
              /\ rt.raised = <<rt.outs[rt.calls], rt.calls>>
              /\ rt.result = None

\* C15 witness: every call failed, the last one with another failure than the
\* first, and the last failure was raised
C15_Witness ==
    /\ rt.status = "raised"
    /\ rt.max_retries = 2
    /\ rt.outs = <<"ValueError", "ValueError", "ConnectionError">>
    /\ rt.raised = <<"ConnectionError", 3>>
    /\ Len(rt.sleeps) = 2

\* C16: the i-th sleep of a call (after the failed attempt with index i - 1)
\* lasts base_delay * exponential_base ** (i - 1), and no sleep follows the
\* attempt after which the wrapper raises.
C16_ExponentialDelays ==
    rt.status # "idle" =>
        /\ \A i \in 1..Len(rt.sleeps) :
              rt.sleeps[i] = rt.base_delay * (rt.exponential_base ^ (i - 1))
        /\ rt.status = "running" => Len(rt.sleeps) = rt.calls
        /\ rt.status = "raised" => Len(rt.sleeps) = rt.calls - 1

\* C16 witness: base_delay 1 and exponential_base 2 slept 1, 2, 4 and the
\* fourth failure was raised without a further sleep
C16_Witness ==
    /\ rt.status = "raised"
    /\ rt.base_delay = 1
    /\ rt.exponential_base = 2
    /\ rt.calls = 4
    /\ rt.sleeps = <<1, 2, 4>>

\* C17: a failure whose kind is not in retryable_exceptions ends the wrapper:
\* it is the last call, it is raised as it is, and no sleep follows it; when
\* it happens on the first call the function was called once and no sleep
\* happened.
C17_NonRetryablePropagates ==
    rt.status # "idle" =>
        \A i \in 1..Len(rt.outs) :
            (rt.outs[i] # "ok" /\ rt.outs[i] \notin rt.retryable_exceptions) =>
                /\ i = rt.calls
                /\ rt.status = "raised"
                /\ rt.raised = <<rt.outs[i], i>>
                /\ Len(rt.sleeps) = i - 1

\* C17 witness: the first call failed with a kind that is not retryable
\* although retries were left
C17_Witness ==
    /\ rt.status = "raised"
    /\ rt.max_retries >= 2
    /\ rt.retryable_exceptions = {"ValueError"}
    /\ rt.outs = <<"ConnectionError">>
    /\ rt.calls = 1
    /\ rt.sleeps = <<>>
    /\ rt.raised = <<"ConnectionError", 1>>

\* C18: when the validator reports a failure (in the model: a result with a
\* score below 70) on an attempt whose number has reached the configured
\* max_attempts, validation_passed is forced to true, max_attempts_reached is
\* set, the reported score is in the metadata and the graph goes on to
\* persistence; from then on ingestion does not run again and the score and
\* the flag stay as they are.
C18_ProceedsAfterMaxAttempts ==
    [][ /\ ( /\ pc = "markdown_validation" /\ pc' # pc
             /\ state'.validation_feedback = "validation_result"
             /\ state'.metadata.validation_score < 70
             /\ state'.validation_attempts >= max_attempts ) =>
               /\ state'.validation_passed
               /\ state'.metadata.max_attempts_reached
               /\ state'.metadata.validation_score = 30
               /\ pc' = "persistence"
        /\ state.metadata.max_attempts_reached =>
               /\ pc' \in {"persistence", "classification", "vectorization", "END", "done"}
               /\ state'.metadata.max_attempts_reached
               /\ state'.metadata.validation_score = state.metadata.validation_score
               /\ state'.validation_attempts = state.validation_attempts
      ]_vars

\* C18 witness: three validations failed under the default max_attempts and the
\* job ended completed with the last score in the metadata
C18_Witness ==
    /\ pc = "done"
    /\ max_attempts = 3
    /\ state.validation_attempts = 3
    /\ state.metadata.max_attempts_reached
    /\ state.metadata.validation_score = 30
    /\ state.validation_passed
    /\ job.status = "completed"
    /\ job.document_id = DocId

\* C19 (as claimed): a failure of the LLM, the embedder or the database inside
\* classification or vectorization is recorded in the metadata
\* (classification_error, vectorization_error) with a count of 0 for that
\* stage and no question of the run classified, respectively embedded; with
\* no error_message on the state the job still ends completed with the
\* persisted document and its question count.
C19_DegradedStagesRecordError ==
    /\ (pc \in {"vectorization", "END", "done"}
            /\ \E o \in ClassifyOutcomes : <<"classification", o>> \in faults) =>
          /\ state.metadata.classification_error
          /\ state.metadata.classified_count = 0
          /\ db.classified = 0
    /\ (pc \in {"END", "done"} /\ <<"vectorization", "error">> \in faults) =>
          /\ state.metadata.vectorization_error
          /\ state.metadata.embedded_count = 0
          /\ db.embedded = 0
    /\ (pc = "done" /\ faults # {} /\ fin.first = "ok" /\ state.error_message = None) =>
          /\ job.status = "completed"
          /\ job.document_id = DocId
          /\ job.question_count = db.questions

\* C20 (as claimed): when the converter timed out in failure_threshold (5)
\* consecutive conversions of earlier jobs, the ingestion of the next job does
\* not call the converter, and that job is marked failed with the CircuitOpen
\* error and its retry-after hint.
C20_OpenBreakerSkipsConverter ==
    converter.prior_timeouts >= DefaultFailureThreshold =>
        /\ converter.calls = 0
        /\ (pc = "done" /\ fin.first = "ok") =>
              (job.status = "failed" /\ job.error_message = ErrCircuitOpen)

C22_ValidatorUnavailablePasses ==
    [][ /\ ( /\ pc = "markdown_validation" /\ pc' # pc
             /\ state'.validation_feedback = "LLM validation unavailable, passed by default" ) =>
               /\ state'.validation_passed
               /\ pc' = "persistence"
               /\ state'.error_message = state.error_message
               /\ state'.metadata.max_attempts_reached = FALSE
               /\ state'.docling_options = state.docling_options
        /\ state.validation_feedback = "LLM validation unavailable, passed by default" =>
               /\ pc' \in {"persistence", "classification", "vectorization", "END", "done"}
               /\ state'.validation_passed
               /\ state'.validation_attempts = state.validation_attempts
      ]_vars

\* C22 witness: the validator was unavailable on the second attempt, after a
\* reported failure on the first, and the job ended completed
C22_Witness ==
    /\ pc = "done"
    /\ state.validation_feedback = "LLM validation unavailable, passed by default"
    /\ state.validation_attempts = 2
    /\ state.metadata.validation_score = 30
    /\ job.status = "completed"
    /\ Count(StageTrace, "ingestion") = 2

\* C23 (as claimed): once the graph has left the validation loop for
\* persistence the downloaded source file is removed and source_file_path is
\* cleared, whatever ended the loop.
C23_SourceDeletedOnExit ==
    pc \in {"persistence", "classification", "vectorization", "END", "done"} =>
        (~fs.source /\ ~state.source_file_path)

\* C24 (as claimed): when persistence failed, no Document or Question row of
\* the run is committed, error_message is set on the state, and document_id
\* and question_ids are unset on the state.
C24_PersistFailureLeavesNothing ==
    (state.status = "failed" \/ state.error_message = ErrPersist) =>
        /\ state.error_message = ErrPersist
        /\ db.documents = {}
        /\ db.questions = 0
        /\ state.document_id = None
        /\ state.question_ids = NoList

\* C25 (as claimed): jobs that run at the same time never share a temp file:
\* the source file of a job that still needs it is there and holds that
\* job's document, no two such jobs have the same source path, and a job's
\* output.zip holds the conversion of its own document.
C25_JobsNeverShareTempFiles ==
    /\ \A j \in JobIds :
          (tjobs[j].pc \in {"convert", "validation"} /\ tjobs[j].source_file_path # NoPath) =>
              tfiles[tjobs[j].source_file_path] = j
    /\ \A j \in JobIds, k \in JobIds :
          (j # k /\ tjobs[j].pc # "done" /\ tjobs[k].pc # "done"
                 /\ tjobs[j].source_file_path # NoPath) =>
              tjobs[j].source_file_path # tjobs[k].source_file_path
    /\ \A j \in JobIds : tfiles[output_zip_path(j)] \in {Absent, j}

\* C26 (as claimed): a question marked is_classified has a topic of the
\* closed topic list, a difficulty of easy / medium / hard and one of the six
\* cognitive levels, and is_classified is true exactly when the topic is set.
C26_ClassifiedHasValidLabels ==
    \A q \in QuestionIds :
       /\ qrows[q].is_classified =>
             /\ qrows[q].topic \in Topics
             /\ qrows[q].difficulty \in Difficulties
             /\ qrows[q].cognitive_level \in CognitiveLevels
       /\ qrows[q].is_classified <=> (qrows[q].topic # None)

\* C27 (as claimed): a half-open breaker lets exactly one trial call through:
\* once check() has let a caller pass with the breaker half-open, the next
\* check() to return, made by another thread before any result was recorded,
\* does not pass as well.
C27_OneTrialCallInHalfOpen ==
    [][~(/\ cb_obs.op = "check" /\ cb_obs.post = "half_open" /\ ~cb_obs.err.raised
         /\ cb_obs'.op = "check" /\ cb_obs'.post = "half_open" /\ ~cb_obs'.err.raised
         /\ cb_obs'.thread # cb_obs.thread
         /\ cb._state = "half_open")]_vars

\* C28 (as claimed): the state of the breaker changes only from closed to
\* open, from open to half-open, from half-open to closed and from half-open
\* to open; an open breaker never becomes closed directly.
C28_OnlyFourTransitions ==
    [][cb'._state # cb._state =>
          <<cb._state, cb'._state>> \in {<<"closed", "open">>, <<"open", "half_open">>,
                                         <<"half_open", "closed">>, <<"half_open", "open">>}]_vars

\* C29 (as claimed): persistence never starts while validation_passed is
\* false, whatever the configured max_attempts and also when the output ZIP
\* is missing or empty on the last attempt.
C29_PersistenceOnlyAfterPass == pc = "persistence" => state.validation_passed

\* C30 (as claimed): once Persistence has committed a Document and the final
\* registry write went through, the job is completed and carries the id of
\* that Document, also when an earlier ingestion attempt left an
\* error_message; a failed job owns no persisted Document.
C30_CommittedDocumentCompletes ==
    (pc = "done" /\ fin.first = "ok" /\ DocId \in db.documents) =>
        /\ job.status = "completed"
        /\ job.document_id = DocId

====
